---- MODULE Spec2Model ----
(***************************************************************************)
(* Model of github3/pulls.py: the PullRequest resource, its sub-objects,   *)
(* its accessors over comments / commits / files and its two mutators.     *)
(*                                                                         *)
(* Encoding of Python values:                                              *)
(*   - None is <<>>, any other optional value x is <<x>>;                  *)
(*   - a JSON object is a function from key names to values, a key bound   *)
(*     to null is left out of the domain (dict.get cannot tell them apart);*)
(*   - URLs are sequences of characters, because str.replace works on      *)
(*     substrings; other strings are TLA+ strings.                         *)
(***************************************************************************)
EXTENDS Integers, Sequences, FiniteSets, TLC

VARIABLES pr, session, last

vars == <<pr, session, last>>

\* ------------------------------------------------------------------ bounds
\* largest size of a server-side collection
MaxItems == 3

\* elements the server delivers per page
PerPage == 2

\* ----------------------------------------------------------- Python values
None == <<>>

Some(x) == <<x>>

\* dict.get(key): None when the key is absent
Get(m, k) == IF k \in DOMAIN m THEN Some(m[k]) ELSE None

\* truth value of an optional string: None and '' are false
Truthy(v) == v # None /\ v[1] # ""

\* ------------------------------------------------------------------- URLs
slash == <<"/">>

pulls == <<"p", "u", "l", "l", "s">>

issues == <<"i", "s", "s", "u", "e", "s">>

comments == <<"c", "o", "m", "m", "e", "n", "t", "s">>

commits == <<"c", "o", "m", "m", "i", "t", "s">>

files == <<"f", "i", "l", "e", "s">>

mergeSeg == <<"m", "e", "r", "g", "e">>

repos == <<"r", "e", "p", "o", "s">>

\* str.replace(old, new): every non-overlapping occurrence, left to right
RECURSIVE Replace(_, _, _)
Replace(s, old, new) ==
    IF Len(s) < Len(old) THEN s
    ELSE IF SubSeq(s, 1, Len(old)) = old
         THEN new \o Replace(SubSeq(s, Len(old) + 1, Len(s)), old, new)
         ELSE <<s[1]>> \o Replace(Tail(s), old, new)

\* '/'.join([a, b])
Join(a, b) == a \o slash \o b

\* GitHubCore._build_url(part, base_url=base)
_build_url(part, base) == Join(base, part)

\* ------------------------------------------------------------ sub-objects
\* github3.users.User: only the login is kept
User(u) == [login |-> Get(u, "login")]

\* GitHubCore._strptime: wire timestamp -> datetime object
_strptime(s) == [datetime |-> s]

PullDestination(dest, direction) ==
    [direction |-> direction,
     ref |-> Get(dest, "ref"),
     label |-> Get(dest, "label"),
     user |-> IF "user" \in DOMAIN dest THEN Some(User(dest.user)) ELSE None,
     sha |-> Get(dest, "sha"),
     repo |-> IF "repo" \in DOMAIN dest
              THEN <<Get(dest.repo.owner, "login"), Get(dest.repo, "name")>>
              ELSE <<Some(""), Some("")>>]

PullFile(pfile) ==
    [sha |-> Get(pfile, "sha"),
     filename |-> Get(pfile, "filename"),
     status |-> Get(pfile, "status"),
     additions |-> Get(pfile, "additions"),
     deletions |-> Get(pfile, "deletions"),
     changes |-> Get(pfile, "changes"),
     blob_url |-> Get(pfile, "blob_url"),
     raw_url |-> Get(pfile, "raw_url"),
     patch |-> Get(pfile, "patch")]

ReviewComment(comment) ==
    [id |-> Get(comment, "id"),
     user |-> IF "user" \in DOMAIN comment THEN Some(User(comment.user)) ELSE None,
     original_position |-> Get(comment, "original_position"),
     path |-> Get(comment, "path"),
     position |-> IF "position" \in DOMAIN comment /\ comment.position # 0
                  THEN comment.position ELSE 0,
     commit_id |-> Get(comment, "commit_id")]

\* github3.git.Commit: only the sha is kept
Commit(c) == [sha |-> Get(c, "sha")]

\* ------------------------------------------------------------ PullRequest
\* the links dictionary of PullRequest.__init__
Links(api, html_url) ==
    [self |-> api,
     comments |-> Join(Replace(api, pulls, issues), comments),
     issue |-> Replace(api, pulls, issues),
     html |-> html_url,
     review_comments |-> api \o slash \o comments]

\* PullRequest.__init__(pull, session): every field of the instance
PullRequest(pull) ==
    [_api |-> IF "url" \in DOMAIN pull THEN pull.url ELSE <<>>,
     base |-> PullDestination(pull.base, "Base"),
     body |-> Get(pull, "body"),
     body_html |-> Get(pull, "body_html"),
     body_text |-> Get(pull, "body_text"),
     closed_at |-> IF Truthy(Get(pull, "closed_at"))
                   THEN Some(_strptime(pull.closed_at)) ELSE None,
     created_at |-> _strptime(pull.created_at),
     diff_url |-> Get(pull, "diff_url"),
     head |-> PullDestination(pull.head, "Head"),
     html_url |-> Get(pull, "html_url"),
     id |-> Get(pull, "id"),
     issue_url |-> Get(pull, "issue_url"),
     links |-> Links(IF "url" \in DOMAIN pull THEN pull.url ELSE <<>>,
                     Get(pull, "html_url")),
     merged_at |-> IF Truthy(Get(pull, "merged_at"))
                   THEN Some(_strptime(pull.merged_at)) ELSE None,
     _mergeable |-> Get(pull, "mergeable"),
     merged_by |-> IF "merged_by" \in DOMAIN pull
                   THEN Some(User(pull.merged_by)) ELSE None,
     number |-> Get(pull, "number"),
     patch_url |-> Get(pull, "patch_url"),
     state |-> Get(pull, "state"),
     title |-> Get(pull, "title"),
     updated_at |-> _strptime(pull.updated_at),
     user |-> IF "user" \in DOMAIN pull THEN Some(User(pull.user)) ELSE None]

\* mutant of _update_: patches the editable fields instead of rebuilding
_update_patch(pull) ==
    [pr EXCEPT !.title = Get(pull, "title"),
               !.body = Get(pull, "body"),
               !.state = Get(pull, "state")]

\* PullRequest._update_(pull): re-run the constructor on the instance
_update_(pull) == PullRequest(pull)

\* ------------------------------------------------- server data (the inputs)
ApiRoot ==
    <<"h", "t", "t", "p", "s", ":", "/", "/", "a", "p", "i", ".",
      "g", "i", "t", "h", "u", "b", ".", "c", "o", "m">>

Variants == {"merged", "open", "fresh"}

\* https://api.github.com/repos/:user/:repo/pulls/:number
PullUrl(owner, repo, number) ==
    Join(Join(Join(Join(Join(ApiRoot, repos), owner), repo), pulls), number)

\* https://api.github.com/repos/:user/:repo/issues/:number
IssueUrl(owner, repo, number) ==
    Join(Join(Join(Join(Join(ApiRoot, repos), owner), repo), issues), number)

DestJson(full) ==
    IF full
    THEN [ref |-> "master", label |-> "o:master", sha |-> "abc",
          user |-> [login |-> "o"],
          repo |-> [name |-> "r", owner |-> [login |-> "o"]]]
    ELSE [ref |-> "topic", label |-> "gone:topic", sha |-> "def"]

\* a pull request as the server sends it
PullJson(owner, repo, v) ==
    LET common ==
            [url |-> PullUrl(owner, repo, <<"4", "2">>),
             number |-> 42,
             id |-> 1042,
             created_at |-> "2012-01-01T00:00:00Z",
             updated_at |-> "2012-01-02T00:00:00Z",
             base |-> DestJson(TRUE),
             head |-> DestJson(v # "fresh"),
             html_url |-> "html-" \o v,
             diff_url |-> "diff-" \o v,
             patch_url |-> "patch-" \o v,
             issue_url |-> "issue-" \o v,
             title |-> "title-" \o v,
             state |-> IF v = "merged" THEN "closed" ELSE "open"]
    IN  CASE v = "merged" ->
               common @@ [body |-> "text", body_html |-> "<p>text</p>",
                          body_text |-> "text",
                          closed_at |-> "2012-01-03T00:00:00Z",
                          merged_at |-> "2012-01-03T00:00:00Z",
                          mergeable |-> FALSE,
                          merged_by |-> [login |-> "m"],
                          user |-> [login |-> "u"]]
          [] v = "open" ->
               common @@ [body |-> "", mergeable |-> TRUE,
                          user |-> [login |-> "u"]]
          [] OTHER -> common

\* <<owner, repository, variant>> of the pull requests the server may hold:
\* an ordinary repository in the three variants, an owner called "pulls" and
\* a repository called "mypulls"
PullIds ==
    {<<(<<"o">>), (<<"r">>), v>> : v \in Variants}
        \cup {<<pulls, (<<"r">>), "open">>,
              <<(<<"o">>), (<<"m", "y">> \o pulls), "fresh">>}

PullJsons == {PullJson(p[1], p[2], p[3]) : p \in PullIds}

CommentJson(i) ==
    IF i % 2 = 1
    THEN [id |-> i, path |-> "a.py", position |-> i - 1, original_position |-> i,
          commit_id |-> "abc", user |-> [login |-> "u"]]
    ELSE [id |-> i, path |-> "b.py", commit_id |-> "def"]

CommitJson(i) == [sha |-> i]

FileJson(i) ==
    [sha |-> i, filename |-> "f.py", status |-> "modified", additions |-> i,
     deletions |-> 0, changes |-> i, blob_url |-> "blob", raw_url |-> "raw"]

\* the collection of n elements the server holds behind url, <<>> for any
\* url that is no sub-collection of the pull request at api
Resource(api, url, n) ==
    IF url = Join(api, comments) THEN [found |-> TRUE, data |-> [i \in 1..n |-> CommentJson(i)]]
    ELSE IF url = Join(api, commits) THEN [found |-> TRUE, data |-> [i \in 1..n |-> CommitJson(i)]]
    ELSE IF url = Join(api, files) THEN [found |-> TRUE, data |-> [i \in 1..n |-> FileJson(i)]]
    ELSE [found |-> FALSE, data |-> <<>>]

Min(a, b) == IF a < b THEN a ELSE b

\* one page of a collection, with the number of the next page (0: none)
ServerPage(data, page) ==
    [json |-> SubSeq(data, (page - 1) * PerPage + 1, Min(page * PerPage, Len(data))),
     next |-> IF page * PerPage < Len(data) THEN page + 1 ELSE 0]

\* ------------------------------------------------------------- transport
Request(method, url, data) == [method |-> method, url |-> url, data |-> data]

Response(status, content, json) ==
    [status |-> status, content |-> content, json |-> json]

Return(v) == [kind |-> "return", value |-> v]

Raise(e) == [kind |-> "raise", value |-> e]

NoResponse == Response(0, FALSE, <<>>)

Call(op, args, requests, resp, data, outcome) ==
    [op |-> op, args |-> args, requests |-> requests, resp |-> resp,
     data |-> data, outcome |-> outcome]

\* GitHubCore._json(response, status_code): the decoded body of a response
\* with that status and a body, None otherwise
_json(response, status_code) ==
    IF response.status = status_code /\ response.content
    THEN Some(response.json) ELSE None

\* GitHubCore._boolean(response, true_code, false_code)
_boolean(response, true_code, false_code) ==
    IF response.status = true_code THEN Return(TRUE)
    ELSE IF response.status = false_code THEN Return(FALSE)
    ELSE Raise("TransportFailure")

\* json.dumps of a dictionary: the text, as its key/value pairs in key order
KeyOrder == <<"body", "commit_message", "state", "title">>

dumps(d) ==
    LET ks == SelectSeq(KeyOrder, LAMBDA k : k \in DOMAIN d)
    IN  [i \in 1..Len(ks) |-> <<ks[i], d[ks[i]]>>]

\* cls(json), for the classes handed to _iter
New(cls, json) ==
    CASE cls = "ReviewComment" -> ReviewComment(json)
      [] cls = "Commit" -> Commit(json)
      [] cls = "PullFile" -> PullFile(json)

\* GitHubCore._iter(count, url, cls): the elements the lazy sequence yields
\* when fully consumed, and the number of page requests it makes
RECURSIVE IterFrom(_, _, _, _, _)
IterFrom(count, data, page, got, gets) ==
    IF count >= 0 /\ Len(got) >= count
    THEN [items |-> got, gets |-> gets]
    ELSE LET r == ServerPage(data, page)
             take == IF count < 0 THEN r.json
                     ELSE SubSeq(r.json, 1, Min(Len(r.json), count - Len(got)))
             got2 == got \o take
         IN  IF r.next = 0 \/ (count >= 0 /\ Len(got2) >= count)
             THEN [items |-> got2, gets |-> gets + 1]
             ELSE IterFrom(count, data, r.next, got2, gets + 1)

\* n is the server's side of the exchange: the size of the collection
_iter(count, url, cls, n) ==
    LET res == Resource(pr._api, url, n)
        it == IterFrom(count, res.data, 1, <<>>, 0)
    IN  IF count = 0
        THEN [requests |-> <<>>, outcome |-> Return(<<>>)]
        ELSE IF ~res.found
        THEN [requests |-> <<Request("GET", url, None)>>,
              outcome |-> Raise("TransportFailure")]
        ELSE [requests |-> [i \in 1..it.gets |-> Request("GET", url, None)],
              outcome |-> Return([i \in 1..Len(it.items) |-> New(cls, it.items[i])])]

\* a single GET of a collection url: the first page the server delivers
_get(url, n, status) ==
    LET res == Resource(pr._api, url, n)
    IN  IF res.found
        THEN Response(status, status = 200, IF status = 200
                                            THEN ServerPage(res.data, 1).json ELSE <<>>)
        ELSE Response(404, FALSE, <<>>)

\* the decorator github3.decorators.requires_auth around func
requires_auth(op, args, func) ==
    IF session.auth
    THEN func
    ELSE /\ last' = Call(op, args, <<>>, NoResponse, <<>>,
                         Raise("AuthenticationRequired"))
         /\ UNCHANGED <<pr, session>>

\* ------------------------------------------------------------ the inputs
Statuses == {200, 500}

ProbeStatuses == {204, 404, 200, 500}

Limits == -2..(MaxItems + 1)

Titles == {None, Some(""), Some("X")}

Bodies == {None, Some("B")}

States == {None, Some("closed")}

Messages == {"", "done"}

PatchResponses ==
    {Response(200, TRUE, p) : p \in PullJsons}
        \cup {Response(200, TRUE, <<>>), Response(200, FALSE, <<>>),
              Response(404, TRUE, [message |-> "Not Found"]),
              Response(422, TRUE, [message |-> "Validation Failed"])}

MergeResponses ==
    {Response(200, TRUE, [merged |-> TRUE, message |-> "merged"]),
     Response(200, TRUE, [merged |-> FALSE, message |-> "odd"]),
     Response(405, TRUE, [merged |-> FALSE, message |-> "not mergeable"]),
     Response(405, TRUE, [merged |-> TRUE, message |-> "odd"]),
     Response(404, TRUE, [message |-> "Not Found"]),
     Response(500, FALSE, <<>>)}

\* ------------------------------------------------------------- operations
Init ==
    /\ \E p \in PullJsons : pr = PullRequest(p)
    /\ session \in [auth : BOOLEAN]
    /\ last = Call("__init__", <<>>, <<>>, NoResponse, <<>>, Return(None))

is_mergeable ==
    /\ last' = Call("is_mergeable", <<>>, <<>>, NoResponse, <<>>,
                    Return(IF pr._mergeable = None THEN FALSE ELSE pr._mergeable[1]))
    /\ UNCHANGED <<pr, session>>

\* mutant of is_merged: the two status codes the wrong way round
is_merged_swapped ==
    \E status \in ProbeStatuses :
        LET url == _build_url(mergeSeg, pr._api)
            resp == Response(status, FALSE, <<>>)
        IN  /\ last' = Call("is_merged", <<>>, <<Request("GET", url, None)>>, resp,
                            <<>>, _boolean(resp, 404, 204))
            /\ UNCHANGED <<pr, session>>

is_merged ==
    \E status \in ProbeStatuses :
        LET url == _build_url(mergeSeg, pr._api)
            resp == Response(status, FALSE, <<>>)
        IN  /\ last' = Call("is_merged", <<>>, <<Request("GET", url, None)>>, resp,
                            <<>>, _boolean(resp, 204, 404))
            /\ UNCHANGED <<pr, session>>

\* the lazy accessors: what they yield when fully consumed
\* mutant of iter_comments: the limit is not passed on
iter_comments_unbounded(number, n) ==
    LET url == _build_url(comments, pr._api)
        it == _iter(-1, url, "ReviewComment", n)
    IN  /\ last' = Call("iter_comments", <<number>>, it.requests, NoResponse,
                        Resource(pr._api, Join(pr._api, comments), n).data, it.outcome)
        /\ UNCHANGED <<pr, session>>

iter_comments(number, n) ==
    LET url == _build_url(comments, pr._api)
        it == _iter(number, url, "ReviewComment", n)
    IN  /\ last' = Call("iter_comments", <<number>>, it.requests, NoResponse,
                        Resource(pr._api, Join(pr._api, comments), n).data, it.outcome)
        /\ UNCHANGED <<pr, session>>

iter_commits(number, n) ==
    LET url == _build_url(commits, pr._api)
        it == _iter(number, url, "Commit", n)
    IN  /\ last' = Call("iter_commits", <<number>>, it.requests, NoResponse,
                        Resource(pr._api, Join(pr._api, commits), n).data, it.outcome)
        /\ UNCHANGED <<pr, session>>

iter_files(number, n) ==
    LET url == _build_url(files, pr._api)
        it == _iter(number, url, "PullFile", n)
    IN  /\ last' = Call("iter_files", <<number>>, it.requests, NoResponse,
                        Resource(pr._api, Join(pr._api, files), n).data, it.outcome)
        /\ UNCHANGED <<pr, session>>

\* the eager accessors
list_comments(n, status) ==
    LET url == _build_url(comments, pr._api)
        resp == _get(url, n, status)
        json == _json(resp, 200)
    IN  /\ last' = Call("list_comments", <<>>, <<Request("GET", url, None)>>, resp,
                        Resource(pr._api, Join(pr._api, comments), n).data,
                        IF json = None THEN Raise("TypeError")
                        ELSE Return([i \in 1..Len(json[1]) |-> ReviewComment(json[1][i])]))
        /\ UNCHANGED <<pr, session>>

list_commits(n, status) ==
    LET url == _build_url(commits, pr._api)
        resp == _get(url, n, status)
        json == _json(resp, 200)
    IN  /\ last' = Call("list_commits", <<>>, <<Request("GET", url, None)>>, resp,
                        Resource(pr._api, Join(pr._api, commits), n).data,
                        IF json = None THEN Raise("TypeError")
                        ELSE Return([i \in 1..Len(json[1]) |-> Commit(json[1][i])]))
        /\ UNCHANGED <<pr, session>>

list_files(n, status) ==
    LET url == _build_url(files, pr._api)
        resp == _get(url, n, status)
        json == _json(resp, 200)
    IN  /\ last' = Call("list_files", <<>>, <<Request("GET", url, None)>>, resp,
                        Resource(pr._api, Join(pr._api, files), n).data,
                        IF json = None THEN Raise("TypeError")
                        ELSE Return([i \in 1..Len(json[1]) |-> PullFile(json[1][i])]))
        /\ UNCHANGED <<pr, session>>

\* mutant of merge_body: a merge the server reports done closes the instance
merge_body_refresh(commit_message) ==
    \E resp \in MergeResponses :
        LET data == IF commit_message # ""
                    THEN Some(dumps([commit_message |-> commit_message]))
                    ELSE None
            url == _build_url(mergeSeg, pr._api)
            merged == resp.content /\ "merged" \in DOMAIN resp.json /\ resp.json.merged
        IN  /\ last' = Call("merge", <<commit_message>>,
                            <<Request("PUT", url, data)>>, resp, <<>>,
                            IF ~resp.content THEN Raise("TypeError")
                            ELSE IF "merged" \notin DOMAIN resp.json
                            THEN Raise("KeyError")
                            ELSE Return(resp.json.merged))
            /\ pr' = IF merged THEN [pr EXCEPT !.state = Some("closed")] ELSE pr
            /\ UNCHANGED session

\* mutant of merge_body: the result is inferred from the status code
merge_body_status(commit_message) ==
    \E resp \in MergeResponses :
        LET data == IF commit_message # ""
                    THEN Some(dumps([commit_message |-> commit_message]))
                    ELSE None
            url == _build_url(mergeSeg, pr._api)
        IN  /\ last' = Call("merge", <<commit_message>>,
                            <<Request("PUT", url, data)>>, resp, <<>>,
                            Return(resp.status = 200))
            /\ UNCHANGED <<pr, session>>

\* the body of merge, under the decorator
merge_body(commit_message) ==
    \E resp \in MergeResponses :
        LET data == IF commit_message # ""
                    THEN Some(dumps([commit_message |-> commit_message]))
                    ELSE None
            url == _build_url(mergeSeg, pr._api)
        IN  /\ last' = Call("merge", <<commit_message>>,
                            <<Request("PUT", url, data)>>, resp, <<>>,
                            IF ~resp.content THEN Raise("TypeError")
                            ELSE IF "merged" \notin DOMAIN resp.json
                            THEN Raise("KeyError")
                            ELSE Return(resp.json.merged))
            /\ UNCHANGED <<pr, session>>

merge(commit_message) ==
    requires_auth("merge", <<commit_message>>, merge_body(commit_message))

\* mutant of update_data: drops every false value, the empty string included
update_data_truthy(title, body, state) ==
    LET data == [title |-> title, body |-> body, state |-> state]
    IN  [k \in {k \in DOMAIN data : Truthy(data[k])} |-> data[k][1]]

\* the dictionary update sends: the arguments that are not None
update_data(title, body, state) ==
    LET data == [title |-> title, body |-> body, state |-> state]
    IN  [k \in {k \in DOMAIN data : data[k] # None} |-> data[k][1]]

\* mutant of update_body: the fields are patched from the arguments before
\* the server has answered
update_body_optimistic(title, body, state) ==
    LET data == update_data(title, body, state)
        patched == [pr EXCEPT !.title = IF title # None THEN title ELSE @,
                              !.body = IF body # None THEN body ELSE @,
                              !.state = IF state # None THEN state ELSE @]
    IN  IF DOMAIN data # {}
        THEN \E resp \in PatchResponses :
                LET json == _json(resp, 200)
                    req == Request("PATCH", pr._api, Some(dumps(data)))
                IN  IF json # None /\ DOMAIN json[1] # {}
                    THEN /\ pr' = _update_(json[1])
                         /\ last' = Call("update", <<title, body, state>>, <<req>>,
                                         resp, <<>>, Return(TRUE))
                         /\ UNCHANGED session
                    ELSE /\ pr' = patched
                         /\ last' = Call("update", <<title, body, state>>, <<req>>,
                                         resp, <<>>, Return(FALSE))
                         /\ UNCHANGED session
        ELSE /\ last' = Call("update", <<title, body, state>>, <<>>, NoResponse,
                             <<>>, Return(FALSE))
             /\ UNCHANGED <<pr, session>>

\* the body of update, under the decorator
update_body(title, body, state) ==
    LET data == update_data(title, body, state)
    IN  IF DOMAIN data # {}
        THEN \E resp \in PatchResponses :
                LET json == _json(resp, 200)
                    req == Request("PATCH", pr._api, Some(dumps(data)))
                IN  IF json # None /\ DOMAIN json[1] # {}
                    THEN /\ pr' = _update_(json[1])
                         /\ last' = Call("update", <<title, body, state>>, <<req>>,
                                         resp, <<>>, Return(TRUE))
                         /\ UNCHANGED session
                    ELSE /\ last' = Call("update", <<title, body, state>>, <<req>>,
                                         resp, <<>>, Return(FALSE))
                         /\ UNCHANGED <<pr, session>>
        ELSE /\ last' = Call("update", <<title, body, state>>, <<>>, NoResponse,
                             <<>>, Return(FALSE))
             /\ UNCHANGED <<pr, session>>

\* mutant of update: the decorator is missing
update_noauth(title, body, state) == update_body(title, body, state)

update(title, body, state) ==
    requires_auth("update", <<title, body, state>>, update_body(title, body, state))

\* the caller attaches credentials to the session, or drops them
set_auth(a) ==
    /\ session.auth # a
    /\ session' = [auth |-> a]
    /\ last' = Call("set_auth", <<a>>, <<>>, NoResponse, <<>>, Return(None))
    /\ UNCHANGED pr

Next ==
    \/ is_mergeable
    \/ is_merged
    \/ \E number \in Limits, n \in 0..MaxItems :
          \/ iter_comments(number, n)
          \/ iter_commits(number, n)
          \/ iter_files(number, n)
    \/ \E n \in 0..MaxItems, status \in Statuses :
          \/ list_comments(n, status)
          \/ list_commits(n, status)
          \/ list_files(n, status)
    \/ \E commit_message \in Messages : merge(commit_message)
    \/ \E title \in Titles, body \in Bodies, state \in States :
          update(title, body, state)
    \/ \E a \in BOOLEAN : set_auth(a)

Spec == Init /\ [][Next]_vars

\* ---------------------------------------------------------------- claims
\* the dictionary a request body decodes to (json.loads)
loads(text) ==
    [k \in {text[i][1] : i \in 1..Len(text)} |->
        (CHOOSE i \in 1..Len(text) : text[i][1] = k) ]

UpdateArgs == [title |-> last.args[1], body |-> last.args[2], state |-> last.args[3]]

\* C1: whenever update completes a successful write (status 200, non-empty
\* body R) it returns true and every field of the PullRequest is the value
\* the constructor derives from R alone, whatever the caller passed and
\* whatever the instance held before.
C1_UpdateRebuildsFromResponse ==
    (/\ last.op = "update"
     /\ Len(last.requests) = 1
     /\ last.resp.status = 200
     /\ last.resp.content
     /\ DOMAIN last.resp.json # {})
    => LET R == last.resp.json
       IN  /\ last.outcome.kind = "return"
           /\ last.outcome.value = TRUE
           /\ pr = PullRequest(R)
           /\ pr._api = R.url
           /\ pr.title = Get(R, "title")
           /\ pr.state = Get(R, "state")
           /\ pr.body = Get(R, "body")
           /\ pr._mergeable = Get(R, "mergeable")
           /\ ("merged_at" \notin DOMAIN R => pr.merged_at = None)
           /\ ("closed_at" \notin DOMAIN R => pr.closed_at = None)
           /\ ("merged_by" \notin DOMAIN R => pr.merged_by = None)
           /\ ("user" \notin DOMAIN R => pr.user = None)
           /\ pr.links = Links(R.url, Get(R, "html_url"))

\* update(title="X") succeeded and the title, body and merge fields are the
\* response's, not the argument's
C1_Witness ==
    /\ last.op = "update"
    /\ last.outcome.kind = "return"
    /\ last.outcome.value = TRUE
    /\ last.args = <<Some("X"), None, None>>
    /\ pr.title = Some("title-fresh")
    /\ pr.body = None
    /\ pr.merged_at = None

\* C2: on a session without credentials merge and update raise
\* AuthenticationRequired and issue no request, whatever the arguments and
\* whatever the state of the PullRequest.
C2_UnauthenticatedFailsBeforeNetwork ==
    (last.op \in {"merge", "update"} /\ ~session.auth)
    => /\ last.outcome.kind = "raise"
       /\ last.outcome.value = "AuthenticationRequired"
       /\ last.requests = <<>>

\* update with all three arguments was refused on a session without
\* credentials
C2_Witness ==
    /\ last.op = "update"
    /\ ~session.auth
    /\ last.args = <<Some("X"), Some("B"), Some("closed")>>
    /\ last.outcome.kind = "raise"
    /\ last.requests = <<>>

\* the elements the lazy accessor of the same kind yields for limit -1 over
\* the collection the last call saw
LazyAll ==
    CASE last.op = "list_comments" ->
             _iter(-1, Join(pr._api, comments), "ReviewComment", Len(last.data)).outcome.value
      [] last.op = "list_commits" ->
             _iter(-1, Join(pr._api, commits), "Commit", Len(last.data)).outcome.value
      [] last.op = "list_files" ->
             _iter(-1, Join(pr._api, files), "PullFile", Len(last.data)).outcome.value

\* C3: over the same server data of any size the eager accessor returns the
\* elements the lazy accessor yields for limit -1, in the same order.
C3_EagerEqualsLazy ==
    (last.op \in {"list_comments", "list_commits", "list_files"}
        /\ last.outcome.kind = "return")
    => last.outcome.value = LazyAll

\* the element constructor of an accessor
Element(op, json) ==
    CASE op \in {"iter_comments", "list_comments"} -> ReviewComment(json)
      [] op \in {"iter_commits", "list_commits"} -> Commit(json)
      [] op \in {"iter_files", "list_files"} -> PullFile(json)

\* pages needed to deliver k elements
Pages(k) == (k + PerPage - 1) \div PerPage

IterOps == {"iter_comments", "iter_commits", "iter_files"}

\* C4: a lazy accessor with limit N >= 0 yields the first min(N, total)
\* elements in server order and requests no page beyond the one that holds
\* the last of them (one page when there is none to deliver); with N < 0 it yields all the elements and reads every
\* page.
C4_LazyLimit ==
    (last.op \in IterOps /\ last.outcome.kind = "return")
    => LET N == last.args[1]
           total == Len(last.data)
           k == IF N < 0 THEN total ELSE Min(N, total)
           got == last.outcome.value
       IN  /\ Len(got) = k
           /\ \A i \in 1..k : got[i] = Element(last.op, last.data[i])
           /\ N >= 0 => Len(last.requests) <= (IF k = 0 THEN 1 ELSE Pages(k))
           /\ (N > 0 /\ N <= total) => Len(last.requests) = Pages(N)
           /\ N < 0 => Len(last.requests) = (IF total = 0 THEN 1 ELSE Pages(total))
           /\ \A i \in 1..Len(last.requests) :
                 last.requests[i].method = "GET"

\* files(1) over a collection of more than one page: one element, one request
C4_Witness ==
    /\ last.op = "iter_files"
    /\ last.args = <<1>>
    /\ Len(last.data) > PerPage
    /\ Len(last.outcome.value) = 1
    /\ Len(last.requests) = 1

\* C5: is_merged issues one GET of <api_url>/merge, returns true exactly for
\* status 204, false exactly for status 404, and raises for any other status.
C5_IsMergedByStatus ==
    last.op = "is_merged"
    => /\ last.requests = <<Request("GET", pr._api \o slash \o mergeSeg, None)>>
       /\ (last.resp.status = 204
             <=> (last.outcome.kind = "return" /\ last.outcome.value = TRUE))
       /\ (last.resp.status = 404
             <=> (last.outcome.kind = "return" /\ last.outcome.value = FALSE))
       /\ (last.resp.status \notin {204, 404} => last.outcome.kind = "raise")

\* the probe answered 200 and is_merged raised instead of returning false
C5_Witness ==
    /\ last.op = "is_merged"
    /\ last.resp.status = 200
    /\ last.outcome.kind = "raise"

\* C6: on a session with credentials update issues at most one request, a
\* PATCH whose body holds exactly the arguments that are not None; with all
\* three None it issues none and returns false.
C6_UpdatePatchBody ==
    (last.op = "update" /\ session.auth)
    => LET given == {k \in DOMAIN UpdateArgs : UpdateArgs[k] # None}
       IN  /\ Len(last.requests) <= 1
           /\ given = {} => /\ last.requests = <<>>
                            /\ last.outcome.kind = "return"
                            /\ last.outcome.value = FALSE
           /\ given # {} =>
                /\ Len(last.requests) = 1
                /\ last.requests[1].method = "PATCH"
                /\ LET text == last.requests[1].data[1]
                       sent == loads(text)
                   IN  /\ Len(text) = Cardinality(given)
                       /\ DOMAIN sent = given
                       /\ \A k \in given : text[sent[k]][2] = UpdateArgs[k][1]

\* update(title="", state="closed"): the body holds the empty title and the
\* state, and no body key
C6_Witness ==
    /\ last.op = "update"
    /\ session.auth
    /\ last.args = <<Some(""), None, Some("closed")>>
    /\ Len(last.requests) = 1
    /\ last.requests[1].data = Some(<<(<<"state", "closed">>), (<<"title", "">>)>>)

\* C7: only update changes a field of the PullRequest: every other operation,
\* merge included, leaves the instance as it was.
C7_OnlyUpdateMutates ==
    [][last'.op # "update" => pr' = pr]_vars

\* merge returned true and the instance still reads open, unmerged, unclosed
C7_Witness ==
    /\ last.op = "merge"
    /\ last.outcome.kind = "return"
    /\ last.outcome.value = TRUE
    /\ pr.state = Some("open")
    /\ pr.merged_at = None
    /\ pr.closed_at = None

\* C8: on a session with credentials merge(m), m not empty, issues one PUT
\* of <api_url>/merge with body {commit_message: m} and returns the merged
\* entry of the response, whatever the status; a response without that
\* entry makes it raise.
C8_MergeReturnsMerged ==
    (last.op = "merge" /\ session.auth /\ last.args[1] # "")
    => /\ last.requests =
            <<Request("PUT", pr._api \o slash \o mergeSeg,
                      Some(<<(<<"commit_message", last.args[1]>>)>>))>>
       /\ IF "merged" \in DOMAIN last.resp.json
          THEN /\ last.outcome.kind = "return"
               /\ last.outcome.value = last.resp.json.merged
          ELSE last.outcome.kind = "raise"

\* the server answered 200 with merged false, and merge returned false
C8_Witness ==
    /\ last.op = "merge"
    /\ last.args = <<"done">>
    /\ last.resp.status = 200
    /\ last.resp.json.merged = FALSE
    /\ last.outcome.kind = "return"
    /\ last.outcome.value = FALSE

\* C9: the links are derived from api_url: self is api_url, issue is api_url
\* with the path segment pulls replaced by issues and nothing else altered,
\* comments is issue + /comments, review_comments is api_url + /comments,
\* html is html_url.
C9_LinksDerived ==
    /\ pr.links.self = pr._api
    /\ \A p \in PullIds :
          pr._api = PullUrl(p[1], p[2], <<"4", "2">>)
          => pr.links.issue = IssueUrl(p[1], p[2], <<"4", "2">>)
    /\ pr.links.comments = pr.links.issue \o slash \o comments
    /\ pr.links.review_comments = pr._api \o slash \o comments
    /\ pr.links.html = pr.html_url

\* C10: an update that the server rejects (no non-empty body with status 200)
\* returns false and leaves the PullRequest and the session as they were.
C10_RejectedUpdateChangesNothing ==
    [][(/\ last'.op = "update"
        /\ Len(last'.requests) = 1
        /\ (last'.resp.status # 200 \/ ~last'.resp.content
               \/ DOMAIN last'.resp.json = {}))
       => /\ last'.outcome.kind = "return"
          /\ last'.outcome.value = FALSE
          /\ pr' = pr
          /\ session' = session]_vars

\* the server answered 422 to an update that carried a title
C10_Witness ==
    /\ last.op = "update"
    /\ last.args[1] = Some("X")
    /\ last.resp.status = 422
    /\ last.outcome.kind = "return"
    /\ last.outcome.value = FALSE

====
